---- MODULE Spec2Model ----
(***************************************************************************)
(* CardOrganizer (cardorganizer.py): sorts Illusion card PNGs by the       *)
(* marker strings found in their content.                                  *)
(*                                                                         *)
(* A Python str is modelled as a sequence of characters.  A character is   *)
(* a one-character string for printable ASCII and "U+XXXX" (its code       *)
(* point) otherwise: "U+3010"/"U+3011" are the lenticular brackets that    *)
(* open and close most markers, "U+FFFD" is the replacement character,     *)
(* "U+0000"/"U+0001" are the bytes \x00 and \x01.  Python indices are      *)
(* 0-based; the sequences are 1-based, so data[i] in Python is data[i+1]   *)
(* here.                                                                   *)
(***************************************************************************)
EXTENDS Integers, Sequences, FiniteSets, TLC

VARIABLES
  pc,            \* position in the program
  error,         \* the uncaught exception that ended the program, or ""
  data,          \* get_card_dir: the file's content
  png_end_index, \* get_card_dir: data.find("IEND")
  events,        \* get_card_dir: what trie.iter(data, png_end_index) yields
  consumed,      \* get_card_dir: how many of events the loop has taken
  game_name,     \* get_card_dir local
  pattern_path,  \* get_card_dir local
  sex,           \* get_card_dir local
  relative_dir,  \* get_card_dir's return value
  files,         \* the file system: path of each existing file -> its content
  dirs,          \* the file system: the existing directories
  unreadable,    \* the file system: files that open() fails on
  readonly,      \* the file system: directories nothing can be moved into
  testrun,       \* args.testrun
  subdir,        \* args.subdir
  target_dir,    \* args.target_dir
  output_dir,    \* args.output_dir
  walk_stack,    \* main: directories os.walk has still to visit
  dirpath,       \* main: the directory os.walk is at
  filenames,     \* main: names os.walk listed there and the loop has not taken
  filename,      \* main: the file at hand
  filepath,      \* main: its path
  dest_dir,      \* main: the directory the file at hand goes to
  destpath,      \* main: the path it goes to
  registry,      \* the module's global games
  trie,          \* main: the automaton create_trie returned
  results,       \* history: <<data, result>> of every get_card_dir call so far
  other,         \* a second instance of the program at work on the same tree
  gup_dirpath,   \* get_unused_path: parameter dirpath
  gup_filename,  \* get_unused_path: parameter filename, reassigned at line 77
  index,         \* get_unused_path local
  path           \* get_unused_path local, and its return value

gcdVars == <<data, png_end_index, events, consumed, game_name, pattern_path, sex, relative_dir>>
gupVars == <<gup_dirpath, gup_filename, index, path>>
argVars == <<testrun, subdir, target_dir, output_dir>>
walkVars == <<walk_stack, dirpath, filenames>>
mainVars == <<argVars, walkVars, filename, filepath, dest_dir, destpath>>
fsVars == <<files, dirs, unreadable, readonly>>
setupVars == <<registry, trie>>
vars == <<pc, error, fsVars, gcdVars, gupVars, mainVars, setupVars, results, other>>

(***************************************************************************)
(* The registry, lines 14-25: game -> list of (pattern_path, pattern), in  *)
(* the dict's insertion order.                                             *)
(***************************************************************************)
games ==
  <<
    <<"KK", <<
          <<"chara", <<"U+3010", "K", "o", "i", "K", "a", "t", "u", "C", "h", "a", "r", "a", "U+3011">>>>,
          <<"chara", <<"U+3010", "K", "o", "i", "K", "a", "t", "u", "C", "h", "a", "r", "a", "S", "U+3011">>>>,
          <<"chara", <<"U+3010", "K", "o", "i", "K", "a", "t", "u", "C", "h", "a", "r", "a", "S", "P", "U+3011">>>>,
          <<"outfit", <<"U+3010", "K", "o", "i", "K", "a", "t", "u", "C", "l", "o", "t", "h", "e", "s", "U+3011">>>>,
          <<"studio", <<"U+3010", "K", "S", "t", "u", "d", "i", "o", "U+3011">>>> >> >>,
    <<"KKS", <<
          <<"chara", <<"U+3010", "K", "o", "i", "K", "a", "t", "u", "C", "h", "a", "r", "a", "S", "u", "n", "U+3011">>>> >> >>,
    <<"AI", <<
          <<"chara", <<"U+3010", "A", "I", "S", "_", "C", "h", "a", "r", "a", "U+3011">>>>,
          <<"outfit", <<"U+3010", "A", "I", "S", "_", "C", "l", "o", "t", "h", "e", "s", "U+3011">>>>,
          <<"studio", <<"U+3010", "S", "t", "u", "d", "i", "o", "N", "E", "O", "V", "2", "U+3011">>>>,
          <<"housing", <<"U+3010", "A", "I", "S", "_", "H", "o", "u", "s", "i", "n", "g", "U+3011">>>> >> >>,
    <<"EC", <<
          <<"chara", <<"E", "r", "o", "M", "a", "k", "e", "C", "h", "a", "r", "a">>>>,
          <<"hscene", <<"E", "r", "o", "M", "a", "k", "e", "H", "S", "c", "e", "n", "e">>>>,
          <<"map", <<"E", "r", "o", "M", "a", "k", "e", "M", "a", "p">>>>,
          <<"pose", <<"E", "r", "o", "M", "a", "k", "e", "P", "o", "s", "e">>>> >> >>,
    <<"HS", <<
          <<"female", <<"U+3010", "H", "o", "n", "e", "y", "S", "e", "l", "e", "c", "t", "C", "h", "a", "r", "a", "F", "e", "m", "a", "l", "e", "U+3011">>>>,
          <<"male", <<"U+3010", "H", "o", "n", "e", "y", "S", "e", "l", "e", "c", "t", "C", "h", "a", "r", "a", "M", "a", "l", "e", "U+3011">>>>,
          <<"studio", <<"U+3010", "-", "n", "e", "o", "-", "U+3011">>>> >> >>,
    <<"PH", <<
          <<"female", <<"U+3010", "P", "l", "a", "y", "H", "o", "m", "e", "_", "F", "e", "m", "a", "l", "e", "U+3011">>>>,
          <<"male", <<"U+3010", "P", "l", "a", "y", "H", "o", "m", "e", "_", "M", "a", "l", "e", "U+3011">>>>,
          <<"studio", <<"U+3010", "P", "H", "S", "t", "u", "d", "i", "o", "U+3011">>>> >> >>,
    <<"SBPR", <<
          <<"female", <<"U+3010", "P", "r", "e", "m", "i", "u", "m", "R", "e", "s", "o", "r", "t", "C", "h", "a", "r", "a", "F", "e", "m", "a", "l", "e", "U+3011">>>>,
          <<"male", <<"U+3010", "P", "r", "e", "m", "i", "u", "m", "R", "e", "s", "o", "r", "t", "C", "h", "a", "r", "a", "M", "a", "l", "e", "U+3011">>>> >> >>,
    <<"HC", <<
          <<"chara", <<"U+3010", "H", "C", "C", "h", "a", "r", "a", "U+3011">>>> >> >>,
    <<"AA2", <<
          <<"chara", <<"y", "U+FFFD", "G", "U+FFFD", "f", "U+FFFD", "B", "U+FFFD", "b", "U+FFFD", "g", "U+FFFD", "z">>>>,
          <<"studio", <<"U+0000", "S", "C", "E", "N", "E", "U+0000">>>> >> >>,
    <<"RG", <<
          <<"chara", <<"U+3010", "R", "G", "_", "C", "h", "a", "r", "a", "U+3011">>>> >> >>
  >>

(***************************************************************************)
(* Python str and os.path primitives used by the program.                  *)
(***************************************************************************)
\* sub occurs in s starting at the 0-based index i
OccursAt(s, sub, i) ==
  /\ i >= 0
  /\ i + Len(sub) <= Len(s)
  /\ \A j \in 1..Len(sub) : s[i + j] = sub[j]

SetMin(S) == CHOOSE m \in S : \A n \in S : m <= n

\* a find that answers 0 where str.find answers -1
str_find_zero(s, sub) ==
  LET hits == {i \in 0..(Len(s) - Len(sub)) : OccursAt(s, sub, i)}
  IN  IF hits = {} THEN 0 ELSE SetMin(hits)

\* str.find: the lowest index at which sub occurs, or -1
str_find(s, sub) ==
  LET hits == {i \in 0..(Len(s) - Len(sub)) : OccursAt(s, sub, i)}
  IN  IF hits = {} THEN -1 ELSE SetMin(hits)

\* A path is the sequence of its components: "HC/chara" is <<"HC", "chara">>,
\* "" is <<>>, and an absolute path starts with the component "/".
\* The path made of the single name s:
PathOf(s) == IF s = "" THEN <<>> ELSE <<s>>

IsAbs(p) == Len(p) > 0 /\ p[1] = "/"

\* os.path.join(a, b)
path_join(a, b) == IF IsAbs(b) THEN b ELSE a \o b

\* os.getcwd()
cwd == <<"/", "w">>

\* the directory a path names: relative paths start at cwd, "." is dropped
abspath(p) == SelectSeq(IF IsAbs(p) THEN p ELSE cwd \o p, LAMBDA c : c # ".")

IEND == <<"I", "E", "N", "D">>
SexPattern == <<"s", "e", "x">>
SexValue == <<"sex">>

(***************************************************************************)
(* create_trie, lines 38-45.  The automaton is modelled by what it        *)
(* stores, a function from key to value (add_word on a key that is        *)
(* already present replaces its value), and by what iter yields.          *)
(***************************************************************************)
add_word(t, key, value) == (key :> value) @@ t

\* add_word(pattern, (pattern_path, game_name)): the pair the wrong way round
RECURSIVE AddCardInfoList_swapped(_, _, _, _)
AddCardInfoList_swapped(t, game, card_info_list, i) ==
  IF i > Len(card_info_list) THEN t
  ELSE AddCardInfoList_swapped(
         add_word(t, card_info_list[i][2], <<card_info_list[i][1], game>>),
         game, card_info_list, i + 1)

RECURSIVE AddCardInfoList(_, _, _, _)
AddCardInfoList(t, game, card_info_list, i) ==
  IF i > Len(card_info_list) THEN t
  ELSE AddCardInfoList(
         add_word(t, card_info_list[i][2], <<game, card_info_list[i][1]>>),
         game, card_info_list, i + 1)

RECURSIVE AddGames(_, _)
AddGames(t, g) ==
  IF g > Len(registry) THEN t
  ELSE AddGames(AddCardInfoList(t, registry[g][1], registry[g][2], 1), g + 1)

EmptyTrie == [k \in {} |-> <<>>]

\* a registry with one more marker, the tail of the HC marker
create_trie_with_suffix ==
  add_word(add_word(AddGames(EmptyTrie, 1), SexPattern, SexValue),
           <<"a", "r", "a", "U+3011">>, <<"XX", "chara">>)

create_trie == add_word(AddGames(EmptyTrie, 1), SexPattern, SexValue)

\* the keys of trie whose occurrence ends at index e and lies in data[start:]
KeysEndingAt(t, s, start, e) ==
  {k \in DOMAIN t :
     /\ k[Len(k)] = s[e + 1]
     /\ e - Len(k) + 1 >= start
     /\ OccursAt(s, k, e - Len(k) + 1)}

\* keys that end at the same index are reported longest first
RECURSIVE LongestFirst(_, _, _)
LongestFirst(t, keys, e) ==
  IF keys = {} THEN <<>>
  ELSE LET k == CHOOSE x \in keys : \A y \in keys : Len(y) <= Len(x)
       IN  <<<<e, t[k]>>>> \o LongestFirst(t, keys \ {k}, e)

\* trie.iter(s, start): (end_index, value) of every occurrence of a key in
\* s[start:], by ascending end_index; end_index is the index in s of the
\* occurrence's last character
RECURSIVE IterFrom(_, _, _, _)
IterFrom(t, s, start, e) ==
  IF e >= Len(s) THEN <<>>
  ELSE LongestFirst(t, KeysEndingAt(t, s, start, e), e)
         \o IterFrom(t, s, start, e + 1)

\* trie.iter(s): the scan of the whole of s
trie_iter_whole(t, s, start) == IterFrom(t, s, 0, 0)

trie_iter(t, s, start) == IterFrom(t, s, start, start)

(***************************************************************************)
(* get_card_dir, lines 47-65, one action per step.                         *)
(***************************************************************************)
Sentinels == {"U+0000", "U+0001"}

\* game_name, pattern_path and sex kept from one call to the next
GcdFind_keeps_locals ==
  /\ pc = "gcd_find"
  /\ png_end_index' = str_find(data, IEND)
  /\ IF png_end_index' = -1
     THEN /\ relative_dir' = PathOf("")
          /\ pc' = "gcd_returned"
          /\ results' = Append(results, <<data, relative_dir'>>)
          /\ UNCHANGED <<events, game_name, pattern_path, sex>>
     ELSE /\ UNCHANGED <<game_name, pattern_path, sex>>
          /\ events' = trie_iter(trie, data, png_end_index')
          /\ pc' = "gcd_loop"
          /\ UNCHANGED <<relative_dir, results>>
  /\ consumed' = 0
  /\ UNCHANGED <<error, data, fsVars, gupVars, mainVars>>
  /\ UNCHANGED <<setupVars, other>>

\* lines 48-52: find the end of the PNG, start the scan behind it
GcdFind ==
  /\ pc = "gcd_find"
  /\ png_end_index' = str_find(data, IEND)
  /\ IF png_end_index' = -1
     THEN /\ relative_dir' = PathOf("")
          /\ pc' = "gcd_returned"
          /\ results' = Append(results, <<data, relative_dir'>>)
          /\ UNCHANGED <<events, game_name, pattern_path, sex>>
     ELSE /\ game_name' = ""
          /\ pattern_path' = ""
          /\ sex' = ""
          /\ events' = trie_iter(trie, data, png_end_index')
          /\ pc' = "gcd_loop"
          /\ UNCHANGED <<relative_dir, results>>
  /\ consumed' = 0
  /\ UNCHANGED <<error, data, fsVars, gupVars, mainVars>>
  /\ UNCHANGED <<setupVars, other>>

\* the loop with first-match-wins for product markers
GcdLoop_first_wins ==
  /\ pc = "gcd_loop"
  /\ consumed < Len(events)
  /\ LET end_index == events[consumed + 1][1]
         value     == events[consumed + 1][2]
     IN  IF value = SexValue
         THEN IF sex = ""
              THEN IF end_index + 1 >= Len(data)
                   THEN /\ pc' = "raised"
                        /\ error' = "IndexError"
                        /\ UNCHANGED <<game_name, pattern_path, sex>>
                   ELSE LET temp == data[end_index + 2]
                        IN  /\ sex' = IF temp \in Sentinels THEN temp ELSE sex
                            /\ UNCHANGED <<pc, error, game_name, pattern_path>>
              ELSE UNCHANGED <<pc, error, game_name, pattern_path, sex>>
         ELSE /\ game_name' = IF game_name = "" THEN value[1] ELSE game_name
              /\ pattern_path' = IF game_name = "" THEN value[2] ELSE pattern_path
              /\ UNCHANGED <<pc, error, sex>>
  /\ consumed' = consumed + 1
  /\ UNCHANGED <<data, png_end_index, events, relative_dir, fsVars, gupVars, mainVars>>
  /\ UNCHANGED <<setupVars, results, other>>

\* the loop with last-match-wins for the disambiguation marker too
GcdLoop_last_sex_wins ==
  /\ pc = "gcd_loop"
  /\ consumed < Len(events)
  /\ LET end_index == events[consumed + 1][1]
         value     == events[consumed + 1][2]
     IN  IF value = SexValue
         THEN IF TRUE
              THEN IF end_index + 1 >= Len(data)
                   THEN \* data[end_index+1]: string index out of range
                        /\ pc' = "raised"
                        /\ error' = "IndexError"
                        /\ UNCHANGED <<game_name, pattern_path, sex>>
                   ELSE LET temp == data[end_index + 2]
                        IN  /\ sex' = IF temp \in Sentinels THEN temp ELSE sex
                            /\ UNCHANGED <<pc, error, game_name, pattern_path>>
              ELSE UNCHANGED <<pc, error, game_name, pattern_path, sex>>
         ELSE /\ game_name' = value[1]
              /\ pattern_path' = value[2]
              /\ UNCHANGED <<pc, error, sex>>
  /\ consumed' = consumed + 1
  /\ UNCHANGED <<data, png_end_index, events, relative_dir, fsVars, gupVars, mainVars>>
  /\ UNCHANGED <<setupVars, results, other>>

\* lines 52-59: one iteration of the loop
GcdLoop ==
  /\ pc = "gcd_loop"
  /\ consumed < Len(events)
  /\ LET end_index == events[consumed + 1][1]
         value     == events[consumed + 1][2]
     IN  IF value = SexValue
         THEN IF sex = ""
              THEN IF end_index + 1 >= Len(data)
                   THEN \* data[end_index+1]: string index out of range
                        /\ pc' = "raised"
                        /\ error' = "IndexError"
                        /\ UNCHANGED <<game_name, pattern_path, sex>>
                   ELSE LET temp == data[end_index + 2]
                        IN  /\ sex' = IF temp \in Sentinels THEN temp ELSE sex
                            /\ UNCHANGED <<pc, error, game_name, pattern_path>>
              ELSE UNCHANGED <<pc, error, game_name, pattern_path, sex>>
         ELSE /\ game_name' = value[1]
              /\ pattern_path' = value[2]
              /\ UNCHANGED <<pc, error, sex>>
  /\ consumed' = consumed + 1
  /\ UNCHANGED <<data, png_end_index, events, relative_dir, fsVars, gupVars, mainVars>>
  /\ UNCHANGED <<setupVars, results, other>>

\* the two sentinels the wrong way round
Disambiguate_swapped(category, flag) ==
  IF category = "chara"
  THEN IF flag = "U+0000" THEN "female"
       ELSE IF flag = "U+0001" THEN "male"
       ELSE category
  ELSE category

\* the remapping without the test for "chara"
Disambiguate_any(category, flag) ==
  IF flag = "U+0000" THEN "male"
  ELSE IF flag = "U+0001" THEN "female"
  ELSE category

\* lines 61-63
Disambiguate(category, flag) ==
  IF category = "chara"
  THEN IF flag = "U+0000" THEN "male"
       ELSE IF flag = "U+0001" THEN "female"
       ELSE category
  ELSE category

\* lines 61-65: the loop is over
GcdReturn ==
  /\ pc = "gcd_loop"
  /\ consumed = Len(events)
  /\ relative_dir' = path_join(PathOf(game_name), PathOf(Disambiguate(pattern_path, sex)))
  /\ results' = Append(results, <<data, relative_dir'>>)
  /\ pc' = "gcd_returned"
  /\ UNCHANGED <<error, data, png_end_index, events, consumed, game_name, pattern_path, sex>>
  /\ UNCHANGED <<fsVars, gupVars, mainVars>>
  /\ UNCHANGED <<setupVars, other>>

(***************************************************************************)
(* Lines 51-65 as a function of the events the scan delivers: the locals   *)
(* behind each event, and the outcome of the call.                         *)
(***************************************************************************)
\* lines 53-59: the locals behind one event
LoopBody(st, ev, s) ==
  IF st.error # "" THEN st
  ELSE IF ev[2] = SexValue
  THEN IF st.sex = ""
       THEN IF ev[1] + 1 >= Len(s)
            THEN [st EXCEPT !.error = "IndexError"]
            ELSE IF s[ev[1] + 2] \in Sentinels
                 THEN [st EXCEPT !.sex = s[ev[1] + 2]]
                 ELSE st
       ELSE st
  ELSE [st EXCEPT !.game_name = ev[2][1], !.pattern_path = ev[2][2]]

RECURSIVE LoopOver(_, _, _, _)
LoopOver(st, evs, i, s) ==
  IF i > Len(evs) THEN st ELSE LoopOver(LoopBody(st, evs[i], s), evs, i + 1, s)

\* lines 51-65: what the call raises (or "") and what it returns
Outcome(evs, s) ==
  LET st == LoopOver([game_name |-> "", pattern_path |-> "", sex |-> "", error |-> ""],
                     evs, 1, s)
  IN  [error |-> st.error,
       relative_dir |->
         IF st.error # "" THEN <<>>
         ELSE path_join(PathOf(st.game_name),
                        PathOf(Disambiguate(st.pattern_path, st.sex)))]

(***************************************************************************)
(* Contents of files.  A content is a concatenation of at most MaxPieces   *)
(* pieces: the terminator, markers of the registry, the disambiguation     *)
(* marker, its sentinel bytes and other characters.                        *)
(***************************************************************************)
MaxPieces == 3

HCChara == games[8][2][1][2]
AA2Scene == games[9][2][2][2]
ECPose == games[4][2][4][2]

Pieces ==
  { IEND, SexPattern, SexPattern \o <<"U+0000">>, SexPattern \o <<"U+0001">>,
    <<"x">>, HCChara, AA2Scene, ECPose }

RECURSIVE Concat(_, _)
Concat(f, n) == IF n = 0 THEN <<>> ELSE Concat(f, n - 1) \o f[n]

Buffers ==
  UNION { {Concat(f, n) : f \in [1..n -> Pieces]} : n \in 0..MaxPieces }

\* the locals of a function that has not been called
GcdIdle ==
  /\ png_end_index = -1
  /\ events = <<>>
  /\ consumed = 0
  /\ game_name = ""
  /\ pattern_path = ""
  /\ sex = ""
  /\ relative_dir = <<>>

GupIdle ==
  /\ gup_dirpath = <<>>
  /\ gup_filename = <<>>
  /\ index = 0
  /\ path = <<>>

NoOther == [pc |-> "none"]

\* the program as line 90 leaves it, and no second instance
SetUp ==
  /\ registry = games
  /\ trie = create_trie
  /\ results = <<>>
  /\ other = NoOther

MainIdle ==
  /\ testrun = FALSE
  /\ subdir = FALSE
  /\ target_dir = <<>>
  /\ output_dir = <<>>
  /\ walk_stack = <<>>
  /\ dirpath = <<>>
  /\ filenames = {}
  /\ filepath = <<>>
  /\ destpath = <<>>
  /\ dirs = {}
  /\ unreadable = {}
  /\ readonly = {}

InitClassify ==
  /\ data \in Buffers
  /\ pc = "gcd_find"
  /\ error = ""
  /\ GcdIdle
  /\ GupIdle
  /\ MainIdle
  /\ SetUp
  /\ files = <<>>
  /\ filename = <<>>
  /\ dest_dir = <<>>

NextClassify == GcdFind \/ GcdLoop \/ GcdReturn

SpecClassify == InitClassify /\ [][NextClassify]_vars

(***************************************************************************)
(* File names.  A name is a sequence of characters without a separator     *)
(* and without a newline; a file's path is <<directory, name>>, the        *)
(* directory a sequence of components.                                     *)
(***************************************************************************)
\* os.path.join(dirpath, filename)
file_path(d, name) == <<d, name>>

\* the key of a file in the file system
Resolved(p) == <<abspath(p[1]), p[2]>>

\* os.path.exists
os_path_exists(fs, p) == Resolved(p) \in DOMAIN fs

\* index of the last "." of p, or 0
LastDot(p) ==
  LET dots == {i \in 1..Len(p) : p[i] = "."}
  IN  IF dots = {} THEN 0 ELSE CHOOSE i \in dots : \A j \in dots : j <= i

\* os.path.splitext: <<root, ext>>; the extension starts at the last dot,
\* unless only dots precede it
splitext(p) ==
  LET d == LastDot(p)
  IN  IF d > 0 /\ \E j \in 1..(d - 1) : p[j] # "."
      THEN <<SubSeq(p, 1, d - 1), SubSeq(p, d, Len(p))>>
      ELSE <<p, <<>>>>

DigitChars == <<"0", "1", "2", "3", "4", "5", "6", "7", "8", "9">>
IsDigit(c) == \E d \in 1..Len(DigitChars) : DigitChars[d] = c

\* re.match("^(.+)\(([0-9])\)$", base): <<new_base, new_index>> or <<>> (None)
re_match(base) ==
  LET n == Len(base)
  IN  IF /\ n >= 4
         /\ base[n] = ")"
         /\ IsDigit(base[n - 1])
         /\ base[n - 2] = "("
      THEN <<SubSeq(base, 1, n - 3), <<base[n - 1]>>>>
      ELSE <<>>

WhiteSpace == {" ", "U+0009", "U+000A", "U+000B", "U+000C", "U+000D"}

\* str.strip()
RECURSIVE lstrip(_)
lstrip(s) == IF s # <<>> /\ Head(s) \in WhiteSpace THEN lstrip(Tail(s)) ELSE s
RECURSIVE rstrip(_)
rstrip(s) ==
  IF s # <<>> /\ s[Len(s)] \in WhiteSpace THEN rstrip(SubSeq(s, 1, Len(s) - 1)) ELSE s
strip(s) == lstrip(rstrip(s))

\* int(s) for a string of decimal digits
RECURSIVE int(_)
int(s) ==
  IF s = <<>> THEN 0
  ELSE 10 * int(SubSeq(s, 1, Len(s) - 1))
         + ((CHOOSE d \in 1..Len(DigitChars) : DigitChars[d] = s[Len(s)]) - 1)

\* str(n) for n >= 0
RECURSIVE str(_)
str(n) ==
  IF n < 10 THEN <<DigitChars[n + 1]>>
  ELSE str(n \div 10) \o <<DigitChars[(n % 10) + 1]>>

\* f"{base} ({index}){ext}"
Numbered(base, i, ext) == base \o <<" ", "(">> \o str(i) \o <<")">> \o ext

(***************************************************************************)
(* get_unused_path, lines 67-86, one action per step.                      *)
(***************************************************************************)
\* lines 68-70
GupCheck ==
  /\ pc = "gup_check"
  /\ path' = file_path(gup_dirpath, gup_filename)
  /\ pc' = IF ~os_path_exists(files, path') THEN "gup_returned" ELSE "gup_parse"
  /\ UNCHANGED <<error, fsVars, gcdVars, gup_dirpath, gup_filename, index, mainVars>>
  /\ UNCHANGED <<setupVars, results, other>>

\* the numbering started at 0
GupParse_from_zero ==
  /\ pc = "gup_parse"
  /\ LET base  == splitext(gup_filename)[1]
         ext   == splitext(gup_filename)[2]
         match == re_match(base)
     IN  IF match # <<>>
         THEN /\ gup_filename' = strip(match[1]) \o ext
              /\ index' = int(match[2])
         ELSE /\ index' = 0
              /\ UNCHANGED gup_filename
  /\ pc' = "gup_probe"
  /\ UNCHANGED <<error, fsVars, gcdVars, gup_dirpath, path, mainVars>>
  /\ UNCHANGED <<setupVars, results, other>>

\* lines 72-78
GupParse ==
  /\ pc = "gup_parse"
  /\ LET base  == splitext(gup_filename)[1]
         ext   == splitext(gup_filename)[2]
         match == re_match(base)
     IN  IF match # <<>>
         THEN /\ gup_filename' = strip(match[1]) \o ext
              /\ index' = int(match[2])
         ELSE /\ index' = 1
              /\ UNCHANGED gup_filename
  /\ pc' = "gup_probe"
  /\ UNCHANGED <<error, fsVars, gcdVars, gup_dirpath, path, mainVars>>
  /\ UNCHANGED <<setupVars, results, other>>

\* the first numbered name taken without looking whether it exists
GupProbe_once ==
  /\ pc = "gup_probe"
  /\ LET base == splitext(gup_filename)[1]
         ext  == splitext(gup_filename)[2]
     IN  path' = file_path(gup_dirpath, Numbered(base, index, ext))
  /\ index' = index + 1
  /\ pc' = "gup_returned"
  /\ UNCHANGED <<error, fsVars, gcdVars, gup_dirpath, gup_filename, mainVars>>
  /\ UNCHANGED <<setupVars, results, other>>

\* lines 80-86: one iteration of the loop, and the return behind it
GupProbe ==
  /\ pc = "gup_probe"
  /\ LET base == splitext(gup_filename)[1]
         ext  == splitext(gup_filename)[2]
     IN  path' = file_path(gup_dirpath, Numbered(base, index, ext))
  /\ index' = index + 1
  /\ pc' = IF ~os_path_exists(files, path') THEN "gup_returned" ELSE "gup_probe"
  /\ UNCHANGED <<error, fsVars, gcdVars, gup_dirpath, gup_filename, mainVars>>
  /\ UNCHANGED <<setupVars, results, other>>

(***************************************************************************)
(* Directories for get_unused_path: at most MaxFiles of the names Names    *)
(* exist in the destination directory.                                     *)
(***************************************************************************)
MaxFiles == 3
MaxIndex == 11

Stem == <<"a">>
Png == <<".", "p", "n", "g">>

Names ==
  {Stem \o Png, Stem, Stem \o <<"(", "1", ")">> \o Png, Numbered(Stem, 1, <<>>),
   Numbered(<<>>, 1, Png)}
    \cup {Numbered(Stem, k, Png) : k \in 1..MaxIndex}

OutDir == <<"out", "HC", "chara">>

Listings == {S \in SUBSET Names : Cardinality(S) <= MaxFiles}

InitNamer ==
  /\ filename \in Names
  /\ dest_dir = OutDir
  /\ \E S \in Listings : files = [p \in {Resolved(file_path(OutDir, n)) : n \in S} |-> <<>>]
  /\ MainIdle
  /\ gup_dirpath = dest_dir
  /\ gup_filename = filename
  /\ index = 0
  /\ path = <<>>
  /\ pc = "gup_check"
  /\ error = ""
  /\ data = <<>>
  /\ GcdIdle
  /\ SetUp

NextNamer == GupCheck \/ GupParse \/ GupProbe

SpecNamer == InitNamer /\ [][NextNamer]_vars

(***************************************************************************)
(* main, lines 88-119.  The calls of get_card_dir and get_unused_path run  *)
(* the actions above: the caller sets the arguments and the position, and  *)
(* goes on from "gcd_returned" and "gup_returned".  An exception nothing   *)
(* catches ends the program at "raised".                                   *)
(***************************************************************************)
\* line 95
full_output_dir == path_join(cwd, output_dir)

\* str.startswith, on the components of a path
startswith(p, prefix) ==
  Len(prefix) <= Len(p) /\ SubSeq(p, 1, Len(prefix)) = prefix

\* str.endswith
endswith(s, suffix) ==
  Len(suffix) <= Len(s) /\ SubSeq(s, Len(s) - Len(suffix) + 1, Len(s)) = suffix

\* a directory and the directories above it
Ancestors(d) == {SubSeq(d, 1, n) : n \in 1..Len(d)}

\* the directories directly in directory d
SubDirsOf(ds, d) == {s \in ds : Len(s) = Len(d) + 1 /\ SubSeq(s, 1, Len(d)) = d}

\* the names of the files directly in directory d
FilesIn(fs, d) == {p[2] : p \in {q \in DOMAIN fs : q[1] = d}}

\* the orders a directory listing can come in
Orders(S) ==
  {o \in [1..Cardinality(S) -> S] : \A i, j \in 1..Cardinality(S) : o[i] = o[j] => i = j}

\* line 97: os.walk yields its next directory, or is exhausted.  It lists a
\* directory when it comes to it, and visits the subdirectories listed then.
MainWalk ==
  /\ pc = "main_walk"
  /\ IF walk_stack = <<>>
     THEN /\ pc' = "done"
          /\ UNCHANGED walkVars
     ELSE LET top == Head(walk_stack)
          IN  IF abspath(top) \notin dirs
              THEN /\ walk_stack' = Tail(walk_stack)
                   /\ UNCHANGED <<pc, dirpath, filenames>>
              ELSE /\ \E o \in Orders(SubDirsOf(dirs, abspath(top))) :
                        walk_stack' =
                          [i \in DOMAIN o |-> path_join(top, <<o[i][Len(o[i])]>>)]
                            \o Tail(walk_stack)
                   /\ dirpath' = top
                   /\ filenames' = FilesIn(files, abspath(top))
                   \* lines 98-99
                   /\ pc' = IF startswith(top, full_output_dir)
                            THEN "main_walk" ELSE "main_file"
  /\ UNCHANGED <<error, fsVars, gcdVars, gupVars, argVars>>
  /\ UNCHANGED <<filename, filepath, dest_dir, destpath>>
  /\ UNCHANGED <<setupVars, results, other>>

\* lines 101-109: the next name of the listing; a .png is read and classified
MainNextFile ==
  /\ pc = "main_file"
  /\ \E n \in filenames :
       /\ filenames' = filenames \ {n}
       /\ filename' = n
       /\ IF ~endswith(n, Png)
          THEN UNCHANGED <<pc, error, filepath, data>>
          ELSE /\ filepath' = file_path(dirpath, n)
               /\ IF \/ Resolved(filepath') \notin DOMAIN files
                     \/ Resolved(filepath') \in unreadable
                  THEN \* open() raises
                       /\ pc' = "raised"
                       /\ error' = "OSError"
                       /\ UNCHANGED data
                  ELSE /\ data' = files[Resolved(filepath')]
                       /\ pc' = "gcd_find"
                       /\ UNCHANGED error
  /\ UNCHANGED <<fsVars, gupVars, argVars, walk_stack, dirpath, dest_dir, destpath>>
  /\ UNCHANGED <<png_end_index, events, consumed, game_name, pattern_path, sex, relative_dir>>
  /\ UNCHANGED <<setupVars, results, other>>

\* lines 101, 118-119: the listing is exhausted
MainDirDone ==
  /\ pc = "main_file"
  /\ filenames = {}
  /\ pc' = IF ~subdir THEN "done" ELSE "main_walk"
  /\ UNCHANGED <<error, fsVars, gcdVars, gupVars, mainVars>>
  /\ UNCHANGED <<setupVars, results, other>>

\* lines 109-112: get_card_dir has returned
MainRoute ==
  /\ pc = "gcd_returned"
  /\ IF relative_dir # <<>>
     THEN /\ dest_dir' = path_join(output_dir, relative_dir)
          /\ gup_dirpath' = dest_dir'
          /\ gup_filename' = filename
          /\ pc' = "gup_check"
     ELSE /\ pc' = "main_file"
          /\ UNCHANGED <<dest_dir, gup_dirpath, gup_filename>>
  /\ UNCHANGED <<error, fsVars, gcdVars, index, path>>
  /\ UNCHANGED <<argVars, walkVars, filename, filepath, destpath>>
  /\ UNCHANGED <<setupVars, results, other>>

\* os.makedirs(d, exist_ok=True) fails when the first directory it has to
\* make lies in a directory nothing can be created in
MakedirsFails(ds, ro, d) ==
  \E a \in Ancestors(d) :
    /\ a \notin ds
    /\ Len(a) > 1
    /\ SubSeq(a, 1, Len(a) - 1) \in ds
    /\ SubSeq(a, 1, Len(a) - 1) \in ro

\* shutil.move(src, dst) on one file system: the file leaves src and is dst
\* from then on (a file that was at dst is replaced)
Moved(fs, src, dst) ==
  [p \in (DOMAIN fs \ {src}) \cup {dst} |-> IF p = dst THEN fs[src] ELSE fs[p]]

\* the move made in a test run too
MainMove_ignores_testrun ==
  /\ pc = "gup_returned"
  /\ destpath' = path
  /\ IF FALSE
     THEN /\ pc' = "main_file"
          /\ UNCHANGED <<error, files, dirs>>
     ELSE IF MakedirsFails(dirs, readonly, abspath(dest_dir))
     THEN /\ pc' = "raised"
          /\ error' = "OSError"
          /\ UNCHANGED <<files, dirs>>
     ELSE /\ dirs' = dirs \cup Ancestors(abspath(dest_dir))
          /\ IF \/ abspath(dest_dir) \in readonly
                \/ Resolved(filepath)[1] \in readonly
             THEN /\ pc' = "raised"
                  /\ error' = "OSError"
                  /\ UNCHANGED files
             ELSE /\ files' = Moved(files, Resolved(filepath), Resolved(destpath'))
                  /\ pc' = "main_file"
                  /\ UNCHANGED error
  /\ UNCHANGED <<unreadable, readonly, gcdVars, gupVars>>
  /\ UNCHANGED <<argVars, walkVars, filename, filepath, dest_dir>>
  /\ UNCHANGED <<setupVars, results, other>>

\* lines 112-116: get_unused_path has returned
MainMove ==
  /\ pc = "gup_returned"
  /\ destpath' = path
  /\ IF testrun
     THEN /\ pc' = "main_file"
          /\ UNCHANGED <<error, files, dirs>>
     ELSE IF MakedirsFails(dirs, readonly, abspath(dest_dir))
     THEN /\ pc' = "raised"
          /\ error' = "OSError"
          /\ UNCHANGED <<files, dirs>>
     ELSE /\ dirs' = dirs \cup Ancestors(abspath(dest_dir))
          /\ IF \/ abspath(dest_dir) \in readonly
                \/ Resolved(filepath)[1] \in readonly
             THEN /\ pc' = "raised"
                  /\ error' = "OSError"
                  /\ UNCHANGED files
             ELSE /\ files' = Moved(files, Resolved(filepath), Resolved(destpath'))
                  /\ pc' = "main_file"
                  /\ UNCHANGED error
  /\ UNCHANGED <<unreadable, readonly, gcdVars, gupVars>>
  /\ UNCHANGED <<argVars, walkVars, filename, filepath, dest_dir>>
  /\ UNCHANGED <<setupVars, results, other>>

(***************************************************************************)
(* Runs of main: the directory in holds a.png, b.png and n.txt, in/sub     *)
(* holds a.png, and a card a.png may have been sorted to out/HC/chara by   *)
(* an earlier run; any of them may be missing.                             *)
(***************************************************************************)
Card == IEND \o HCChara
Plain == <<"x">>
Broken == IEND \o SexPattern
Male == IEND \o HCChara \o SexPattern \o <<"U+0000">>

InDir == cwd \o <<"in">>
InSubDir == InDir \o <<"sub">>
SortedDir == cwd \o OutDir

NameA == Stem \o Png
NameB == <<"b">> \o Png
NameN == <<"n", ".", "t", "x", "t">>

\* what each file of a run can hold
Slots ==
  [p \in {<<InDir, NameA>>, <<InDir, NameB>>, <<InDir, NameN>>,
          <<InSubDir, NameA>>, <<SortedDir, NameA>>} |->
     IF p = <<InDir, NameA>> THEN {Card, Plain, Broken}
     ELSE IF p = <<InDir, NameB>> THEN {Card, Male}
     ELSE {Card}]

Trees ==
  UNION { {fs \in [P -> {Card, Plain, Broken, Male}] : \A p \in P : fs[p] \in Slots[p]} :
          P \in SUBSET DOMAIN Slots }

TargetDirs == {<<"in">>, <<".">>, cwd}

InitMain ==
  /\ testrun \in BOOLEAN
  /\ subdir \in BOOLEAN
  /\ target_dir \in TargetDirs
  /\ output_dir = <<"out">>
  /\ files \in Trees
  /\ dirs = UNION {Ancestors(d) : d \in {InDir} \cup {p[1] : p \in DOMAIN files}}
  /\ unreadable \in {U \in SUBSET DOMAIN files : Cardinality(U) <= 1}
  /\ readonly \in {R \in SUBSET (dirs \ Ancestors(cwd)) : Cardinality(R) <= 1}
  /\ walk_stack = <<target_dir>>
  /\ dirpath = <<>>
  /\ filenames = {}
  /\ filename = <<>>
  /\ filepath = <<>>
  /\ dest_dir = <<>>
  /\ destpath = <<>>
  /\ data = <<>>
  /\ GcdIdle
  /\ GupIdle
  /\ pc = "main_walk"
  /\ error = ""
  /\ SetUp

NextMain ==
  \/ MainWalk \/ MainNextFile \/ MainDirDone \/ MainRoute \/ MainMove
  \/ GcdFind \/ GcdLoop \/ GcdReturn
  \/ GupCheck \/ GupParse \/ GupProbe

SpecMain == InitMain /\ [][NextMain]_vars

(***************************************************************************)
(* main from its first line, for a registry that is not the shipped one.  *)
(***************************************************************************)
\* lines 89-95: parse the arguments, build the automaton from the registry
MainStart ==
  /\ pc = "main_start"
  /\ trie' = create_trie
  /\ pc' = "main_walk"
  /\ UNCHANGED <<error, fsVars, gcdVars, gupVars, mainVars, registry, results, other>>

\* a registry whose second product registers the marker of the first
Clashing ==
  << <<"HC", << <<"chara", HCChara>> >> >>,
     <<"XX", << <<"scene", HCChara>> >> >> >>

Registries == {games, Clashing}

RegistryTrees ==
  UNION { [P -> {Card}] :
          P \in SUBSET {<<InDir, NameA>>, <<InDir, NameB>>, <<InSubDir, NameA>>} }

InitRegistry ==
  /\ registry \in Registries
  /\ trie = EmptyTrie
  /\ results = <<>>
  /\ other = NoOther
  /\ testrun \in BOOLEAN
  /\ subdir \in BOOLEAN
  /\ target_dir = <<"in">>
  /\ output_dir = <<"out">>
  /\ files \in RegistryTrees
  /\ dirs = UNION {Ancestors(d) : d \in {InDir} \cup {p[1] : p \in DOMAIN files}}
  /\ unreadable = {}
  /\ readonly = {}
  /\ walk_stack = <<target_dir>>
  /\ dirpath = <<>>
  /\ filenames = {}
  /\ filename = <<>>
  /\ filepath = <<>>
  /\ dest_dir = <<>>
  /\ destpath = <<>>
  /\ data = <<>>
  /\ GcdIdle
  /\ GupIdle
  /\ pc = "main_start"
  /\ error = ""

NextRegistry == MainStart \/ NextMain

SpecRegistry == InitRegistry /\ [][NextRegistry]_vars

(***************************************************************************)
(* Two instances of the program at once.  Each has classified a card of    *)
(* its own (Card from in, Male from in/sub; what the destination holds     *)
(* already is Plain) and is at the call of get_unused_path (line 112) for  *)
(* the same destination directory; their steps interleave.  The first is   *)
(* the instance modelled above, the second runs the same lines 67-86 and   *)
(* 112-116 on its own locals, kept in the record other.                    *)
(***************************************************************************)
\* lines 68-70
OtherCheck ==
  /\ other.pc = "gup_check"
  /\ LET p == file_path(other.gup_dirpath, other.gup_filename)
     IN  other' = [other EXCEPT
                     !.path = p,
                     !.pc = IF ~os_path_exists(files, p)
                            THEN "gup_returned" ELSE "gup_parse"]
  /\ UNCHANGED <<pc, error, fsVars, gcdVars, gupVars, mainVars, setupVars, results>>

\* lines 72-78
OtherParse ==
  /\ other.pc = "gup_parse"
  /\ LET base  == splitext(other.gup_filename)[1]
         ext   == splitext(other.gup_filename)[2]
         match == re_match(base)
     IN  IF match # <<>>
         THEN other' = [other EXCEPT !.gup_filename = strip(match[1]) \o ext,
                                     !.index = int(match[2]),
                                     !.pc = "gup_probe"]
         ELSE other' = [other EXCEPT !.index = 1, !.pc = "gup_probe"]
  /\ UNCHANGED <<pc, error, fsVars, gcdVars, gupVars, mainVars, setupVars, results>>

\* lines 80-86
OtherProbe ==
  /\ other.pc = "gup_probe"
  /\ LET base == splitext(other.gup_filename)[1]
         ext  == splitext(other.gup_filename)[2]
         p    == file_path(other.gup_dirpath, Numbered(base, other.index, ext))
     IN  other' = [other EXCEPT
                     !.path = p,
                     !.index = other.index + 1,
                     !.pc = IF ~os_path_exists(files, p)
                            THEN "gup_returned" ELSE "gup_probe"]
  /\ UNCHANGED <<pc, error, fsVars, gcdVars, gupVars, mainVars, setupVars, results>>

\* lines 112-116, not a test run
OtherMove ==
  /\ other.pc = "gup_returned"
  /\ IF MakedirsFails(dirs, readonly, abspath(other.gup_dirpath))
     THEN /\ other' = [other EXCEPT !.destpath = other.path, !.pc = "raised"]
          /\ UNCHANGED <<files, dirs>>
     ELSE /\ dirs' = dirs \cup Ancestors(abspath(other.gup_dirpath))
          /\ IF \/ abspath(other.gup_dirpath) \in readonly
                \/ Resolved(other.filepath)[1] \in readonly
             THEN /\ other' = [other EXCEPT !.destpath = other.path, !.pc = "raised"]
                  /\ UNCHANGED files
             ELSE /\ files' = Moved(files, Resolved(other.filepath), Resolved(other.path))
                  /\ other' = [other EXCEPT !.destpath = other.path, !.pc = "moved"]
  /\ UNCHANGED <<pc, error, unreadable, readonly, gcdVars, gupVars, mainVars>>
  /\ UNCHANGED <<setupVars, results>>

\* the names the destination directory can hold at the start
RaceNames == {NameA, Numbered(Stem, 1, Png), Numbered(Stem, 2, Png)}

InitRace ==
  /\ \E S \in SUBSET RaceNames, n \in {NameA, Numbered(Stem, 1, Png)} :
       /\ files = [p \in {<<InDir, NameA>>, <<InSubDir, n>>}
                          \cup {Resolved(file_path(OutDir, x)) : x \in S} |->
                     IF p = <<InDir, NameA>> THEN Card
                     ELSE IF p = <<InSubDir, n>> THEN Male ELSE Plain]
       /\ other = [pc |-> "gup_check", filepath |-> file_path(<<"in", "sub">>, n),
                   gup_dirpath |-> OutDir, gup_filename |-> n,
                   index |-> 0, path |-> <<>>, destpath |-> <<>>]
  /\ dirs = UNION {Ancestors(p[1]) : p \in DOMAIN files}
  /\ unreadable = {}
  /\ readonly = {}
  /\ testrun = FALSE
  /\ subdir = FALSE
  /\ target_dir = <<"in">>
  /\ output_dir = <<"out">>
  /\ walk_stack = <<>>
  /\ dirpath = <<"in">>
  /\ filenames = {}
  /\ filename = NameA
  /\ filepath = file_path(dirpath, filename)
  /\ data = Card
  /\ GcdIdle
  /\ registry = games
  /\ trie = create_trie
  /\ results = <<>>
  /\ dest_dir = OutDir
  /\ destpath = <<>>
  /\ gup_dirpath = dest_dir
  /\ gup_filename = filename
  /\ index = 0
  /\ path = <<>>
  /\ pc = "gup_check"
  /\ error = ""

NextRace ==
  \/ GupCheck \/ GupParse \/ GupProbe \/ MainMove
  \/ OtherCheck \/ OtherParse \/ OtherProbe \/ OtherMove

SpecRace == InitRace /\ [][NextRace]_vars

(***************************************************************************)
(* What a content holds, read off the registry and the content alone.      *)
(***************************************************************************)
\* <<pattern, game_name, pattern_path>> of every registered product marker
RegistryTriples ==
  UNION { {<<games[g][2][i][2], games[g][1], games[g][2][i][1]>> :
             i \in 1..Len(games[g][2])} : g \in 1..Len(games) }

ProductPatterns == {t[1] : t \in RegistryTriples}

\* <<start, end_index, pattern>> of every occurrence of a pattern of P in s
OccurrencesOf(P, s) ==
  {<<i, i + Len(k) - 1, k>> : <<i, k>> \in
     {x \in (0..Len(s)) \X P : OccursAt(s, x[2], x[1])}}

ProductOccurrences(s) == OccurrencesOf(ProductPatterns, s)
SexOccurrences(s) == OccurrencesOf({SexPattern}, s)
MarkerOccurrences(s) == ProductOccurrences(s) \cup SexOccurrences(s)

HasIEND(s) == \E i \in 0..Len(s) : OccursAt(s, IEND, i)

\* index of the first character of the first IEND
FirstIEND(s) ==
  CHOOSE i \in 0..Len(s) :
    OccursAt(s, IEND, i) /\ \A j \in 0..(i - 1) : ~OccursAt(s, IEND, j)

\* the value the registry gives an occurrence
ValueOf(k) ==
  IF k = SexPattern THEN SexValue
  ELSE LET t == CHOOSE t \in RegistryTriples : t[1] = k IN <<t[2], t[3]>>

EventsOf(occs) == {<<o[2], ValueOf(o[3])>> : o \in occs}

EventSet == {events[i] : i \in 1..Len(events)}

Scanned == pc \in {"gcd_loop", "gcd_returned", "raised"} /\ png_end_index # -1

\* occurrences that end at or before the first IEND / lie behind its start
EndingBeforeIEND(occs, s) == {o \in occs : o[2] + 1 <= FirstIEND(s)}
StartingFromIEND(occs, s) == {o \in occs : o[1] >= FirstIEND(s)}

C2_Pre ==
  /\ HasIEND(data)
  /\ Cardinality(StartingFromIEND(ProductOccurrences(data), data)) = 1
  /\ StartingFromIEND(SexOccurrences(data), data) = {}

C3_SexAtEndDoesNotFail ==
  (/\ Scanned
   /\ \E o \in StartingFromIEND(SexOccurrences(data), data) : o[2] + 1 = Len(data))
  => pc # "raised" /\ error = ""

\* last-match-wins: the product occurrence of the scanned region that ends last
LastProduct(s) ==
  CHOOSE o \in StartingFromIEND(ProductOccurrences(s), s) :
    \A q \in StartingFromIEND(ProductOccurrences(s), s) : q[2] <= o[2]

Categories(c) == IF c = "chara" THEN {"chara", "male", "female"} ELSE {c}

\* C6: when two different product markers occur in the scanned region, the
\* occurrence that ends last gives the returned product and category (the
\* category "chara" possibly disambiguated to male/female).
C6_LastMatchWins ==
  (/\ pc = "gcd_returned"
   /\ HasIEND(data)
   /\ \E o, q \in StartingFromIEND(ProductOccurrences(data), data) : o[3] # q[3])
  => LET v == ValueOf(LastProduct(data)[3])
     IN  /\ game_name = v[1]
         /\ pattern_path = v[2]
         /\ \E c \in Categories(v[2]) : relative_dir = <<v[1], c>>

C6_Witness ==
  /\ pc = "gcd_returned"
  /\ HasIEND(data)
  /\ \E o, q \in StartingFromIEND(ProductOccurrences(data), data) :
       /\ o[2] < q[2]
       /\ ValueOf(o[3])[1] # ValueOf(q[3])[1]
       /\ q = LastProduct(data)
       /\ relative_dir = <<ValueOf(q[3])[1], ValueOf(q[3])[2]>>

\* C7: the returned category is "male" when the final category is "chara" and
\* the flag is \x00, "female" when it is "chara" and the flag is \x01, and the
\* final category unchanged in every other case.
C7_RemapOnlyChara ==
  (pc = "gcd_returned" /\ png_end_index # -1 /\ game_name # "") =>
    /\ (pattern_path = "chara" /\ sex = "U+0000") => relative_dir = <<game_name, "male">>
    /\ (pattern_path = "chara" /\ sex = "U+0001") => relative_dir = <<game_name, "female">>
    /\ (pattern_path = "chara" /\ sex \notin Sentinels) => relative_dir = <<game_name, "chara">>
    /\ pattern_path # "chara" => relative_dir = <<game_name, pattern_path>>

C7_Witness ==
  /\ pc = "gcd_returned"
  /\ pattern_path = "chara"
  /\ sex = "U+0000"
  /\ relative_dir = <<"HC", "male">>

\* C8: a content without IEND is classified as "none" (the empty
\* destination), and classifying it raises nothing, whatever markers it holds.
C8_NoTerminatorNoMatch ==
  ~HasIEND(data) =>
    /\ pc \in {"gcd_find", "gcd_returned"}
    /\ error = ""
    /\ pc = "gcd_returned" => relative_dir = <<>>

C8_Witness ==
  /\ ~HasIEND(data)
  /\ pc = "gcd_returned"
  /\ ProductOccurrences(data) # {}
  /\ \E o \in SexOccurrences(data) : o[2] + 1 = Len(data)

\* the end indices of the disambiguation events the loop has consumed that are
\* followed by a sentinel
SentinelSexSeen ==
  {events[i][1] : i \in {j \in 1..consumed :
     /\ events[j][2] = SexValue
     /\ events[j][1] + 1 < Len(data)
     /\ data[events[j][1] + 2] \in Sentinels}}

\* C15: during the scan the flag is the byte behind the earliest consumed
\* disambiguation marker that is followed by \x00 or \x01, and unset when
\* there is none; once set it never changes.
C15_FirstSentinelWins ==
  /\ [](Scanned /\ pc # "raised" =>
          sex = IF SentinelSexSeen = {} THEN ""
                ELSE data[SetMin(SentinelSexSeen) + 2])
  /\ [][(pc = "gcd_loop" /\ sex # "") => sex' = sex]_vars

C15_Witness ==
  /\ pc = "gcd_returned"
  /\ Cardinality(SentinelSexSeen) = 2
  /\ sex = "U+0000"
  /\ \E e \in SentinelSexSeen : data[e + 2] = "U+0001"

\* the sequences that hold the events of evs, each end index at the places
\* where evs has it: evs with the events of equal end index permuted
RECURSIVE TiePermsFrom(_, _, _)
TiePermsFrom(evs, i, left) ==
  IF i > Len(evs) THEN {<<>>}
  ELSE UNION { {<<evs[j]>> \o q : q \in TiePermsFrom(evs, i + 1, left \ {j})} :
               j \in {k \in left : evs[k][1] = evs[i][1]} }

TiePerms(evs) == TiePermsFrom(evs, 1, 1..Len(evs))

C17_NoneIffNoProduct ==
  (pc = "gcd_returned" /\ HasIEND(data)) =>
    IF StartingFromIEND(ProductOccurrences(data), data) = {}
    THEN relative_dir = <<>>
    ELSE Len(relative_dir) = 2 /\ relative_dir[1] # "" /\ relative_dir[2] # ""

C17_Witness ==
  /\ pc = "gcd_returned"
  /\ HasIEND(data)
  /\ StartingFromIEND(ProductOccurrences(data), data) = {}
  /\ sex \in Sentinels
  /\ relative_dir = <<>>

(***************************************************************************)
(* get_unused_path: the desired name and the directory it is asked for.    *)
(***************************************************************************)
\* name n exists in the destination directory
Exists(n) == <<abspath(dest_dir), n>> \in DOMAIN files

\* indices a probe can reach
ProbeIndices == 0..(MaxIndex + MaxFiles + 1)

\* base ends with a bracketed run of digits
EndsWithIndex(base) ==
  /\ base # <<>>
  /\ base[Len(base)] = ")"
  /\ \E j \in 1..(Len(base) - 2) :
       /\ base[j] = "("
       /\ \A i \in (j + 1)..(Len(base) - 1) : IsDigit(base[i])

\* the <<stem, digits>> for which base is "<stem> (<digits>)", the stem not
\* empty and without blanks around it
BracketForms(base) ==
  {f \in {<<SubSeq(base, 1, j), n>> : j \in 1..Len(base), n \in ProbeIndices} :
     /\ base = Numbered(f[1], f[2], <<>>)
     /\ strip(f[1]) = f[1]}

\* the smallest index >= n whose numbered name is unused
FirstUnused(stem, n, ext) ==
  CHOOSE m \in ProbeIndices :
    /\ m >= n
    /\ ~Exists(Numbered(stem, m, ext))
    /\ \A k \in n..(m - 1) : Exists(Numbered(stem, k, ext))

\* C4: when the desired name exists and its base is "<stem> (<digits>)" for a
\* run of one or several digits, the result is "<stem> (m)<ext>" for the
\* smallest m >= digits whose name is unused.
C4_ResumesNumbering ==
  (pc = "gup_returned" /\ Exists(filename)) =>
    \A f \in BracketForms(splitext(filename)[1]) :
      path = file_path(dest_dir,
               Numbered(f[1], FirstUnused(f[1], f[2], splitext(filename)[2]),
                        splitext(filename)[2]))

\* C9: the path get_unused_path returns lies in the directory asked for and
\* does not exist there.
C9_ResultUnused ==
  pc = "gup_returned" => (path[1] = dest_dir /\ ~Exists(path[2]))

C9_Witness ==
  /\ pc = "gup_returned"
  /\ Exists(filename)
  /\ index >= 3
  /\ ~Exists(path[2])

\* C10: for a desired name whose base ends with no bracketed index the result
\* is the name itself when it is unused, and otherwise "<base> (n)<ext>" for
\* the smallest n >= 1 whose name is unused: every "<base> (k)<ext>" with
\* 1 <= k < n exists.
C10_NumbersFromOne ==
  (pc = "gup_returned" /\ ~EndsWithIndex(splitext(filename)[1])) =>
    LET base == splitext(filename)[1]
        ext  == splitext(filename)[2]
    IN  IF ~Exists(filename)
        THEN path = file_path(dest_dir, filename)
        ELSE \E n \in ProbeIndices :
               /\ n >= 1
               /\ path = file_path(dest_dir, Numbered(base, n, ext))
               /\ ~Exists(Numbered(base, n, ext))
               /\ \A k \in 1..(n - 1) : Exists(Numbered(base, k, ext))

C10_Witness ==
  /\ pc = "gup_returned"
  /\ ~EndsWithIndex(splitext(filename)[1])
  /\ Exists(filename)
  /\ path = file_path(dest_dir, Numbered(Stem, 3, Png))

(***************************************************************************)
(* Runs of main.                                                           *)
(***************************************************************************)
\* the names of the listing at hand that the loop has still to read
CandidatesLeft == {n \in filenames : endswith(n, Png)}

\* C5: an I/O error while reading or moving one file does not abort the run:
\* the program never ends on an OSError, least of all with candidate files
\* of the batch still unread.
C5_IOErrorDoesNotAbort ==
  ~(pc = "raised" /\ error = "OSError" /\ CandidatesLeft # {})

\* C12: the file system changes only by the move at lines 115-116, made
\* behind get_unused_path's return, outside a test run and for a file with a
\* destination: in a test run no file moves and no directory is made, a file
\* classified "none" never moves, and the only file that leaves its place is
\* the one at hand, which arrives at the path get_unused_path returned.
C12_MoveOnlyNamedAndNotDry ==
  [][(files' # files \/ dirs' # dirs) =>
       /\ ~testrun
       /\ pc = "gup_returned"
       /\ relative_dir # <<>>
       /\ destpath' = path
       /\ (DOMAIN files) \ (DOMAIN files') \subseteq {Resolved(filepath)}
       /\ (DOMAIN files') \ (DOMAIN files) \subseteq {Resolved(path)}]_vars

C12_Witness ==
  /\ testrun
  /\ pc = "done"
  /\ destpath # <<>>
  /\ Resolved(filepath) \in DOMAIN files
  /\ Resolved(destpath) \notin DOMAIN files
  /\ SortedDir \notin dirs

\* C18: in a run of one instance every move goes to a path that did not exist
\* just before it: the number of files stays the same and every file other
\* than the moved one stays where it is with its content, so no file of the
\* output tree is overwritten and two sources of one name end at two paths.
C18_MoveNeverOverwrites ==
  [][files' # files =>
       /\ Resolved(destpath') \notin DOMAIN files
       /\ Resolved(destpath') \in DOMAIN files'
       /\ files'[Resolved(destpath')] = files[Resolved(filepath)]
       /\ Cardinality(DOMAIN files') = Cardinality(DOMAIN files)
       /\ \A p \in (DOMAIN files) \ {Resolved(filepath)} :
            p \in DOMAIN files' /\ files'[p] = files[p]]_vars

C18_Witness ==
  /\ pc = "done"
  /\ ~testrun
  /\ <<InDir, NameA>> \notin DOMAIN files
  /\ <<InSubDir, NameA>> \notin DOMAIN files
  /\ {<<SortedDir, NameA>>, <<SortedDir, Numbered(Stem, 1, Png)>>,
      <<SortedDir, Numbered(Stem, 2, Png)>>} \subseteq DOMAIN files

\* C19: with --subdir no file under the output directory is read (and so
\* none is moved or renamed), whatever form the target directory was given in.
C19_OutputFilesSkipped ==
  (subdir /\ filepath # <<>>) =>
    ~startswith(Resolved(filepath)[1], abspath(output_dir))

(***************************************************************************)
(* The registry at startup.                                                *)
(***************************************************************************)
EntriesOf(reg) ==
  UNION { {<<reg[g][2][i][2], reg[g][1], reg[g][2][i][1]>> :
             i \in 1..Len(reg[g][2])} : g \in 1..Len(reg) }

\* two entries with the same marker and different products
Ambiguous(reg) ==
  \E a \in EntriesOf(reg), b \in EntriesOf(reg) : a[1] = b[1] /\ a # b

\* C13: with two byte-identical markers mapped to different products in
\* the registry, startup fails: the run never gets past building the
\* automaton, and no file is classified or moved.
C13_ClashingRegistryFailsStartup ==
  Ambiguous(registry) =>
    /\ pc \in {"main_start", "raised"}
    /\ results = <<>>
    /\ \A p \in DOMAIN files : p[1] # SortedDir /\ p[1] # cwd \o <<"out", "XX", "scene">>

\* C14: get_card_dir is a function of the content alone: two calls on the
\* same content return the same result, whatever was classified in between,
\* and no step of a call changes the automaton or the registry.
C14_ClassifyIsPure ==
  /\ [](\A i \in DOMAIN results, j \in DOMAIN results :
          results[i][1] = results[j][1] => results[i][2] = results[j][2])
  /\ [][trie' = trie /\ registry' = registry]_vars

\* the same content classified before and after a content of another result
C14_Witness ==
  \E i \in DOMAIN results, j \in DOMAIN results, k \in DOMAIN results :
    /\ i < j /\ j < k
    /\ results[i][1] = results[k][1]
    /\ results[i][2] # <<>>
    /\ results[j][2] # <<>>
    /\ results[j][2] # results[i][2]

(***************************************************************************)
(* Two instances and one destination directory.                            *)
(***************************************************************************)
\* both instances have moved, each its own file, to one and the same path
Collided ==
  /\ pc = "main_file"
  /\ other.pc = "moved"
  /\ filepath # other.filepath
  /\ Resolved(destpath) = Resolved(other.destpath)

\* C11: the check of get_unused_path and the move behind it are two steps.
\* The name an instance holds was unused when it was checked; it is in
\* use at the time of the move only because the other instance has moved
\* its own file to that name in between, and then the two moves collide
\* on one path and one of the two cards is gone.
C11_CheckAndMoveNotAtomic ==
  /\ (pc = "gup_returned" /\ os_path_exists(files, path)) =>
       (other.pc = "moved" /\ Resolved(other.destpath) = Resolved(path))
  /\ (other.pc = "gup_returned" /\ os_path_exists(files, other.path)) =>
       (pc = "main_file" /\ Resolved(destpath) = Resolved(other.path))
  /\ Collided =>
       /\ ~os_path_exists(files, filepath)
       /\ ~os_path_exists(files, other.filepath)
       /\ ~({Card, Male} \subseteq {files[p] : p \in DOMAIN files})
  /\ ~Collided => {Card, Male} \subseteq {files[p] : p \in DOMAIN files}

\* the interleaving of the claim: both instances checked before either moved
C11_Witness ==
  /\ Collided
  /\ os_path_exists(files, destpath)

====
